---- MODULE Spec2Model ----
(***************************************************************************)
(* Model of the OpenGL ES 2 video output display of src/src/gles2.c:       *)
(* the geometry function compute_bounding_box, the two texture upload      *)
(* paths, shader/program construction, and the Open / do_pool /            *)
(* do_display / do_control / Close life cycle with the GL and EGL calls    *)
(* they issue.                                                             *)
(***************************************************************************)
EXTENDS Integers, Sequences, FiniteSets, TLC

(***************************************************************************)
(* IEEE-754 binary64 arithmetic, as used by compute_bounding_box           *)
(* (double src_ratio, dst_ratio).  A positive double is [m, e] with value  *)
(* m * 2^e and 2^52 <= m < 2^53.  The significand m is a natural number    *)
(* kept as a little-endian sequence of base-2^15 limbs without leading     *)
(* zero limbs, because it does not fit TLC's 32-bit integers.              *)
(* Every operation rounds to nearest, ties to even.                        *)
(***************************************************************************)
LimbBits == 15

LimbBase == 32768

MantBits == 53

RECURSIVE Pow2(_)
Pow2(n) == IF n <= 0 THEN 1 ELSE 2 * Pow2(n - 1)

RECURSIVE BitLen(_)
BitLen(n) == IF n = 0 THEN 0 ELSE 1 + BitLen(n \div 2)

RECURSIVE BNorm(_)
BNorm(a) ==
    IF a = <<>> THEN <<>>
    ELSE IF a[Len(a)] = 0 THEN BNorm(SubSeq(a, 1, Len(a) - 1))
    ELSE a

RECURSIVE BFromInt(_)
BFromInt(n) ==
    IF n = 0 THEN <<>> ELSE <<n % LimbBase>> \o BFromInt(n \div LimbBase)

RECURSIVE BToInt(_)
BToInt(a) ==
    IF a = <<>> THEN 0 ELSE a[1] + LimbBase * BToInt(Tail(a))

BBitLen(a) ==
    IF a = <<>> THEN 0 ELSE LimbBits * (Len(a) - 1) + BitLen(a[Len(a)])

RECURSIVE BCmpFrom(_, _, _)
BCmpFrom(a, b, i) ==
    IF i = 0 THEN 0
    ELSE IF a[i] > b[i] THEN 1
    ELSE IF a[i] < b[i] THEN -1
    ELSE BCmpFrom(a, b, i - 1)

BCmp(a, b) ==
    IF Len(a) > Len(b) THEN 1
    ELSE IF Len(a) < Len(b) THEN -1
    ELSE BCmpFrom(a, b, Len(a))

RECURSIVE BSubFrom(_, _, _, _)
BSubFrom(a, b, i, borrow) ==
    IF i > Len(a) THEN <<>>
    ELSE LET bi == IF i <= Len(b) THEN b[i] ELSE 0
             d  == a[i] - bi - borrow
         IN  IF d < 0 THEN <<d + LimbBase>> \o BSubFrom(a, b, i + 1, 1)
             ELSE <<d>> \o BSubFrom(a, b, i + 1, 0)

BSub(a, b) == BNorm(BSubFrom(a, b, 1, 0))

RECURSIVE BMulSmallFrom(_, _, _, _)
BMulSmallFrom(a, k, i, carry) ==
    IF i > Len(a) THEN BFromInt(carry)
    ELSE LET v == a[i] * k + carry
         IN  <<v % LimbBase>> \o BMulSmallFrom(a, k, i + 1, v \div LimbBase)

\* a * k for a limb-sized k (0 <= k < LimbBase)
BMulSmall(a, k) == BNorm(BMulSmallFrom(a, k, 1, 0))

RECURSIVE BAddFrom(_, _, _, _)
BAddFrom(a, b, i, carry) ==
    IF i > Len(a) /\ i > Len(b) THEN BFromInt(carry)
    ELSE LET ai == IF i <= Len(a) THEN a[i] ELSE 0
             bi == IF i <= Len(b) THEN b[i] ELSE 0
             v  == ai + bi + carry
         IN  <<v % LimbBase>> \o BAddFrom(a, b, i + 1, v \div LimbBase)

BAdd(a, b) == BNorm(BAddFrom(a, b, 1, 0))

Zeros(n) == [i \in 1..n |-> 0]

\* a * 2^t
BShl(a, t) ==
    IF a = <<>> THEN <<>>
    ELSE Zeros(t \div LimbBits) \o BMulSmall(a, Pow2(t % LimbBits))

\* floor(a / 2^t)
BShr(a, t) ==
    LET drop == t \div LimbBits
        bits == t % LimbBits
        rest == IF drop >= Len(a) THEN <<>> ELSE SubSeq(a, drop + 1, Len(a))
        lo   == Pow2(bits)
        hi   == Pow2(LimbBits - bits)
    IN  BNorm([i \in 1..Len(rest) |->
                 (rest[i] \div lo)
                 + (IF i < Len(rest) THEN (rest[i + 1] % lo) * hi ELSE 0)])

\* a mod 2^t
BLow(a, t) == BSub(a, BShl(BShr(a, t), t))

RECURSIVE BMulFrom(_, _, _)
BMulFrom(a, b, j) ==
    IF j > Len(b) THEN <<>>
    ELSE BAdd(Zeros(j - 1) \o BMulSmall(a, b[j]), BMulFrom(a, b, j + 1))

BMul(a, b) == BNorm(BMulFrom(a, b, 1))

BOdd(a) == a # <<>> /\ a[1] % 2 = 1

\* (double)n for an unsigned n > 0: exact
DFromInt(n) ==
    [m |-> BShl(BFromInt(n), MantBits - BitLen(n)), e |-> BitLen(n) - MantBits]

\* q is a significand in [2^52, 2^53]; round it up when up holds
DRound(q, e, up) ==
    LET q1 == IF up THEN BAdd(q, <<1>>) ELSE q
    IN  IF BBitLen(q1) > MantBits THEN [m |-> BShr(q1, 1), e |-> e + 1]
        ELSE [m |-> q1, e |-> e]

RECURSIVE DivSteps(_, _, _)
\* n <= LimbBits steps of restoring division of r (< d) by d: the next n
\* quotient bits, as a number, and the remainder
DivSteps(r, d, n) ==
    IF n = 0 THEN [q |-> 0, r |-> r]
    ELSE LET r2   == BMulSmall(r, 2)
             bit  == IF BCmp(r2, d) >= 0 THEN 1 ELSE 0
             rest == DivSteps(IF bit = 1 THEN BSub(r2, d) ELSE r2, d, n - 1)
         IN  [q |-> bit * Pow2(n - 1) + rest.q, r |-> rest.r]

TopBits == MantBits - 3 * LimbBits

\* the quotient q of a division by d that left the remainder r, rounded
DDivRound(q, e, r, d) ==
    LET c == BCmp(BMulSmall(r, 2), d)
    IN  DRound(q, e, c > 0 \/ (c = 0 /\ BOdd(q)))

\* the quotient's limbs from the top one down; s4 .. s1 are the division
\* steps that produced them
DDivLimb1(top, q3, q2, s1, d, e) == DDivRound(<<s1.q, q2, q3, top>>, e, s1.r, d)

DDivLimb2(top, q3, s2, d, e) ==
    DDivLimb1(top, q3, s2.q, DivSteps(s2.r, d, LimbBits), d, e)

DDivLimb3(top, s3, d, e) ==
    DDivLimb2(top, s3.q, DivSteps(s3.r, d, LimbBits), d, e)

DDivTop(lead, s4, d, e) ==
    DDivLimb3(lead + s4.q, DivSteps(s4.r, d, LimbBits), d, e)

\* x / y: the 53 quotient bits are produced limb by limb, the top limb
\* first; the remainder decides the rounding
DDiv(x, y) ==
    IF BCmp(x.m, y.m) >= 0
    THEN DDivTop(Pow2(TopBits - 1),
                 DivSteps(BSub(x.m, y.m), y.m, TopBits - 1),
                 y.m, x.e - y.e - (MantBits - 1))
    ELSE DDivTop(0, DivSteps(x.m, y.m, TopBits), y.m, x.e - y.e - MantBits)

\* the product p of two significands, cut to 53 bits: t bits are dropped
DMulRound(p, t, e) ==
    LET q == BShr(p, t)
        c == BCmp(BLow(p, t), BShl(<<1>>, t - 1))
    IN  DRound(q, e + t, c > 0 \/ (c = 0 /\ BOdd(q)))

DMulProduct(p, e) == DMulRound(p, BBitLen(p) - MantBits, e)

\* x * y
DMul(x, y) == DMulProduct(BMul(x.m, y.m), x.e + y.e)

\* x > y
DGreater(x, y) == x.e > y.e \/ (x.e = y.e /\ BCmp(x.m, y.m) > 0)

\* (unsigned)x: the fraction is discarded
DTrunc(x) ==
    IF x.e >= 0 THEN BToInt(BShl(x.m, x.e))
    ELSE BToInt(BShr(x.m, 0 - x.e))

(***************************************************************************)
(* Geometry: compute_bounding_box.  src is cfg->display.{width,height},    *)
(* dst the window rectangle; fields are C unsigned (32 bit).               *)
(***************************************************************************)
\* (a - b) / 2 in unsigned 32-bit arithmetic: when a < b the difference
\* wraps to 2^32 - (b - a), and half of that is 2^31 - ceil((b - a) / 2)
UHalfDiff(a, b) ==
    IF a >= b THEN (a - b) \div 2
    ELSE 2147483647 - (((b - a + 1) \div 2) - 1)

Rect(x, y, w, h) == [x |-> x, y |-> y, width |-> w, height |-> h]

\* the branches of compute_bounding_box on the two ratios
compute_bounding_box_fit(src_ratio, dst_ratio, dst) ==
    IF DGreater(src_ratio, dst_ratio)
    THEN LET h == DTrunc(DDiv(DFromInt(dst.width), src_ratio))
         IN  Rect(0, UHalfDiff(dst.height, h), dst.width, h)
    ELSE IF DGreater(dst_ratio, src_ratio)
    THEN LET w == DTrunc(DMul(DFromInt(dst.height), src_ratio))
         IN  Rect(UHalfDiff(dst.width, w), 0, w, dst.height)
    ELSE Rect(0, 0, dst.width, dst.height)

\* compute_bounding_box centring the source size without scaling it
compute_bounding_box_unscaled(cfg, dst) ==
    Rect(UHalfDiff(dst.width, cfg.width), UHalfDiff(dst.height, cfg.height),
         cfg.width, cfg.height)

compute_bounding_box(cfg, dst) ==
    compute_bounding_box_fit(DDiv(DFromInt(cfg.width), DFromInt(cfg.height)),
                             DDiv(DFromInt(dst.width), DFromInt(dst.height)),
                             dst)

(***************************************************************************)
(* The driver side of the program: the GL objects and EGL objects that     *)
(* exist, and the calls the last operation issued.  GL names are drawn     *)
(* from one counter, so a name identifies its object; 0 is "no object".    *)
(*   next    the next unused GL name                                       *)
(*   live    the GL objects created and not yet deleted, as [id, kind]     *)
(*   dead    the GL names a delete call was issued on                      *)
(*   linked  the programs that linked successfully                         *)
(*   row     GL_UNPACK_ROW_LENGTH                                          *)
(*   fb      the framebuffer bound to GL_FRAMEBUFFER (0: the window's)     *)
(*   prog    the current program (0: none)                                 *)
(*   egl     the EGL handles initialised/created and not yet destroyed     *)
(*   log     the calls of the current operation, in order                  *)
(***************************************************************************)
NULL == 0

\* a null pointer to a structure, and the test for it
Nil == [nil |-> TRUE]

IsNil(p) == "nil" \in DOMAIN p

\* EGL handles handed out by the driver, and the value of a field of
\* malloc'ed memory that was never assigned (any bit pattern: NULL or not)
EglDisplayHandle == 11

EglSurfaceHandle == 12

EglContextHandle == 13

Uninit == 99

Call(op, id, arg) == [op |-> op, id |-> id, arg |-> arg]

Emit(W, op, id, arg) == [W EXCEPT !.log = Append(@, Call(op, id, arg))]

World0 ==
    [next |-> 1, live |-> {}, dead |-> {}, linked |-> {}, row |-> 0,
     fb |-> 0, prog |-> 0, egl |-> {}, log |-> <<>>]

Obj(id, kind) == [id |-> id, kind |-> kind]

\* glCreateShader / glCreateProgram / glGenTextures / glGenFramebuffers
glCreate(W, op, kind) ==
    [W |-> Emit([W EXCEPT !.next = @ + 1,
                          !.live = @ \cup {Obj(W.next, kind)}],
                 op, W.next, kind),
     id |-> W.next]

\* glDeleteShader / glDeleteProgram / glDeleteTextures / glDeleteFramebuffers
\* of one name; the name 0 is silently ignored by GL
glDelete(W, op, kind, id) ==
    IF id = 0 THEN Emit(W, op, 0, kind)
    ELSE Emit([W EXCEPT !.live = @ \ {Obj(id, kind)},
                        !.dead = @ \cup {id},
                        !.linked = @ \ {id}],
              op, id, kind)

Live(W, id, kind) == Obj(id, kind) \in W.live

\* glUseProgram: a name that is not a linked, live program is an error and
\* leaves the current program as it was
glUseProgram(W, id) ==
    Emit(IF id = 0 \/ (Live(W, id, "program") /\ id \in W.linked)
         THEN [W EXCEPT !.prog = id] ELSE W,
         "glUseProgram", id, "program")

glBindFramebuffer(W, id) ==
    Emit([W EXCEPT !.fb = id], "glBindFramebuffer", id, "framebuffer")

\* glDrawElements, recorded with the framebuffer and program it draws with
glDrawElements(W) ==
    Emit(W, "glDrawElements", W.fb, [fb |-> W.fb, prog |-> W.prog])

(***************************************************************************)
(* Shader Program module: shader_delete, shader_load_source, shader_load,  *)
(* shader_init.  A gl_shader_t is [program, vertex, fragment]; the         *)
(* attribute locations are not modelled.  The driver's failures are the    *)
(* input "fail" of shader_init.                                            *)
(***************************************************************************)
ShaderFails ==
    {"none", "program", "vertex_create", "vertex_compile", "fragment_create",
     "fragment_compile", "attach_vertex", "attach_fragment", "link"}

Shader0 == [program |-> 0, vertex |-> 0, fragment |-> 0]

shader_delete(W, sh) ==
    LET W1 == IF sh.vertex # 0
              THEN glDelete(W, "glDeleteShader", "shader", sh.vertex) ELSE W
        W2 == IF sh.fragment # 0
              THEN glDelete(W1, "glDeleteShader", "shader", sh.fragment) ELSE W1
        W3 == IF sh.program # 0
              THEN glDelete(W2, "glDeleteProgram", "program", sh.program) ELSE W2
    IN  [W |-> W3, sh |-> Shader0]

\* fail: "create" (glCreateShader returns 0), "compile", or "none"
shader_load_source(W, fail) ==
    IF fail = "create" THEN [W |-> Emit(W, "glCreateShader", 0, "shader"), id |-> 0]
    ELSE LET c == glCreate(W, "glCreateShader", "shader")
             W1 == Emit(c.W, "glCompileShader", c.id, fail # "compile")
         IN  IF fail = "compile"
             THEN [W |-> glDelete(W1, "glDeleteShader", "shader", c.id), id |-> 0]
             ELSE [W |-> W1, id |-> c.id]

SourceFail(fail, stage) ==
    IF fail = stage \o "_create" THEN "create"
    ELSE IF fail = stage \o "_compile" THEN "compile"
    ELSE "none"

\* v, f: what shader_load_source returned for the vertex and the fragment
\* shader
shader_load_result(sh, v, f) ==
    IF v.id = 0
    THEN [W |-> v.W, sh |-> [sh EXCEPT !.vertex = 0], ret |-> -1]
    ELSE IF f.id = 0
    THEN [W |-> f.W, sh |-> [sh EXCEPT !.vertex = v.id, !.fragment = 0],
          ret |-> -1]
    ELSE [W |-> f.W, sh |-> [sh EXCEPT !.vertex = v.id, !.fragment = f.id],
          ret |-> 0]

\* v: the vertex shader is loaded; the fragment shader follows
shader_load_fragment(sh, fail, v) ==
    shader_load_result(sh, v,
                       shader_load_source(v.W, SourceFail(fail, "fragment")))

shader_load(W, sh, fail) ==
    shader_load_fragment(sh, fail,
                         shader_load_source(W, SourceFail(fail, "vertex")))

\* the "failure:" label of shader_init
shader_init_failure(W, sh) ==
    LET d == shader_delete(W, sh)
    IN  [W |-> d.W, sh |-> d.sh, ret |-> -1]

\* glLinkProgram .. return 0 of shader_init: a failed link deletes the
\* program, and the function goes on to use it and reports success
shader_init_link(W, sh, fail) ==
    LET W1 == Emit(W, "glLinkProgram", sh.program, fail # "link")
        W2 == IF fail = "link"
              THEN glDelete(W1, "glDeleteProgram", "program", sh.program)
              ELSE [W1 EXCEPT !.linked = @ \cup {sh.program}]
        W3 == glUseProgram(W2, sh.program)
    IN  [W |-> W3, sh |-> sh, ret |-> 0]

\* l: the result of shader_load; the shaders are attached and the program
\* is linked
shader_init_attach(l, fail) ==
    LET a1 == Emit(l.W, "glAttachShader", l.sh.vertex, l.sh.program)
        a2 == Emit(a1, "glAttachShader", l.sh.fragment, l.sh.program)
    IN  IF l.ret < 0 THEN shader_init_failure(l.W, l.sh)
        ELSE IF fail = "attach_vertex" THEN shader_init_failure(a1, l.sh)
        ELSE IF fail = "attach_fragment" THEN shader_init_failure(a2, l.sh)
        ELSE shader_init_link(a2, l.sh, fail)

\* p: the program glCreateProgram made
shader_init_program(p, sh0, fail) ==
    shader_init_attach(shader_load(p.W, [sh0 EXCEPT !.program = p.id], fail),
                       fail)

shader_init(W, sh0, type, fail) ==
    IF fail = "program"
    THEN [W |-> Emit(W, "glCreateProgram", 0, "program"),
          sh |-> [sh0 EXCEPT !.program = 0], ret |-> -1]
    ELSE shader_init_program(glCreate(W, "glCreateProgram", "program"),
                             sh0, fail)

(***************************************************************************)
(* Resource Context: egl_backend_create / egl_backend_destroy.             *)
(* An egl_backend_t is [display, surface, context].  egl_backend_create    *)
(* gets it from malloc, so surface and context hold whatever the heap      *)
(* held (us, uc: NULL or some other value) until they are assigned.        *)
(***************************************************************************)
EglFails ==
    {"none", "malloc", "eglGetDisplay", "eglInitialize", "eglBindAPI",
     "eglChooseConfig", "eglCreateWindowSurface", "eglCreateContext",
     "eglMakeCurrent"}

EglDestroy(W, op, h) ==
    Emit([W EXCEPT !.egl = @ \ {h}], op, h, "egl")

\* egl_backend_destroy destroying the surface before the context
egl_backend_destroy_surface_first(W, egl) ==
    IF IsNil(egl) THEN W
    ELSE LET W1 == IF egl.surface # NULL
                   THEN EglDestroy(W, "eglDestroySurface", egl.surface) ELSE W
             W2 == IF egl.context # NULL
                   THEN EglDestroy(W1, "eglDestroyContext", egl.context) ELSE W1
             W3 == IF egl.display # NULL
                   THEN EglDestroy(W2, "eglTerminate", egl.display) ELSE W2
         IN  Emit(W3, "free", 0, "egl")

egl_backend_destroy(W, egl) ==
    IF IsNil(egl) THEN W
    ELSE LET W1 == IF egl.context # NULL
                   THEN EglDestroy(W, "eglDestroyContext", egl.context) ELSE W
             W2 == IF egl.surface # NULL
                   THEN EglDestroy(W1, "eglDestroySurface", egl.surface) ELSE W1
             W3 == IF egl.display # NULL
                   THEN EglDestroy(W2, "eglTerminate", egl.display) ELSE W2
         IN  Emit(W3, "free", 0, "egl")

EglStep(W, op, h) == Emit([W EXCEPT !.egl = @ \cup {h}], op, h, "egl")

egl_backend_create(W, fail, us, uc) ==
    LET e0 == [display |-> EglDisplayHandle, surface |-> us, context |-> uc]
        W1 == Emit(W, "eglGetDisplay", EglDisplayHandle, "egl")
        W2 == EglStep(W1, "eglInitialize", EglDisplayHandle)
        W3 == Emit(W2, "eglBindAPI", 0, "egl")
        W4 == Emit(W3, "eglChooseConfig", 0, "egl")
        e5 == [e0 EXCEPT !.surface = EglSurfaceHandle]
        W5 == EglStep(W4, "eglCreateWindowSurface", EglSurfaceHandle)
        e6 == [e5 EXCEPT !.context = EglContextHandle]
        W6 == EglStep(W5, "eglCreateContext", EglContextHandle)
        W7 == Emit(W6, "eglMakeCurrent", EglContextHandle, "egl")
        Cleanup(Wf, e) == [W |-> egl_backend_destroy(Wf, e), egl |-> Nil, ret |-> -1]
    IN  CASE fail = "malloc" -> [W |-> W, egl |-> Nil, ret |-> -1]
          [] fail = "eglGetDisplay" ->
                Cleanup(Emit(W, "eglGetDisplay", NULL, "egl"),
                        [e0 EXCEPT !.display = NULL])
          [] fail = "eglInitialize" -> Cleanup(Emit(W1, "eglInitialize", NULL, "egl"), e0)
          [] fail = "eglBindAPI" -> Cleanup(Emit(W2, "eglBindAPI", NULL, "egl"), e0)
          [] fail = "eglChooseConfig" -> Cleanup(Emit(W3, "eglChooseConfig", NULL, "egl"), e0)
          [] fail = "eglCreateWindowSurface" ->
                Cleanup(Emit(W4, "eglCreateWindowSurface", NULL, "egl"),
                        [e0 EXCEPT !.surface = NULL])
          [] fail = "eglCreateContext" ->
                Cleanup(Emit(W5, "eglCreateContext", NULL, "egl"),
                        [e5 EXCEPT !.context = NULL])
          [] fail = "eglMakeCurrent" -> Cleanup(Emit(W6, "eglMakeCurrent", NULL, "egl"), e6)
          [] OTHER -> [W |-> W7, egl |-> e6, ret |-> 0]

(***************************************************************************)
(* Window Surface: x11_backend_create / x11_backend_destroy.               *)
(* An x11_backend_t is [display, window, rect, external]; rect is the      *)
(* window size the program last learned.                                   *)
(***************************************************************************)
Size(w, h) == [width |-> w, height |-> h]

\* cfg: the requested window size; external: "drawable-xid" names a window
\* of the host, whose geometry geom XGetGeometry reports
x11_backend_create(W, fail, cfg, external, geom) ==
    IF fail THEN [W |-> Emit(W, "XOpenDisplay", NULL, "x11"), x11 |-> Nil, ret |-> -1]
    ELSE LET W1 == Emit(W, "XOpenDisplay", 1, "x11")
         IN  [W |-> IF external THEN Emit(W1, "XSelectInput", 1, "x11")
                    ELSE Emit(W1, "XCreateWindow", 1, "x11"),
              x11 |-> [display |-> 1, window |-> 1, external |-> external,
                       rect |-> IF external THEN geom ELSE cfg],
              ret |-> 0]

x11_backend_destroy(W, x11) ==
    IF IsNil(x11) THEN W
    ELSE LET W1 == IF x11.window # 0
                   THEN Emit(W, IF x11.external THEN "XSelectInput"
                                ELSE "XDestroyWindow", x11.window, "x11")
                   ELSE W
             W2 == IF x11.display # NULL
                   THEN Emit(W1, "XCloseDisplay", x11.display, "x11") ELSE W1
         IN  Emit(W2, "free", 0, "x11")

(***************************************************************************)
(* Render Pipeline construction: texture_create, opengl_es2_create,        *)
(* opengl_es2_destroy.  An opengl_es2_t is                                 *)
(*   [framebuffer, deint, scale, tex, rgb_tex, viewport, has_unpack_row]   *)
(* with tex = <<Y, U, V>> and each texture [id, loc].                      *)
(***************************************************************************)
texture_create(W, filter) ==
    LET c == glCreate(W, "glGenTextures", "texture")
    IN  [W |-> Emit(c.W, "glBindTexture", c.id, filter), id |-> c.id]

\* glGetUniformLocation: the i-th sampler of a linked program, -1 otherwise
UniformLoc(W, program, i) == IF program \in W.linked THEN i ELSE -1

Tex0 == [id |-> 0, loc |-> 0]

Rect0 == [x |-> 0, y |-> 0, width |-> 0, height |-> 0]

\* calloc'ed
Gl0 ==
    [framebuffer |-> 0, deint |-> Shader0, scale |-> Shader0,
     tex |-> <<Tex0, Tex0, Tex0>>, rgb_tex |-> Tex0,
     viewport |-> Rect0, has_unpack_row |-> FALSE]

\* the "cleanup:" label of opengl_es2_create
opengl_es2_create_cleanup(W, gl) ==
    [W |-> Emit(shader_delete(shader_delete(W, gl.deint).W, gl.scale).W,
                "free", 0, "gl"),
     gl |-> Nil, ret |-> -1]

\* g2: the pipeline with its planar textures; c: the result of shader_init
\* for the scale program
opengl_es2_create_scale(g2, c, has_ext) ==
    IF c.ret < 0
    THEN opengl_es2_create_cleanup(c.W, [g2 EXCEPT !.scale = c.sh])
    ELSE [W |-> Emit(c.W, "glGetString", 0, has_ext),
          gl |-> [g2 EXCEPT !.scale = c.sh,
                            !.rgb_tex.loc = UniformLoc(c.W, c.sh.program, 0),
                            !.has_unpack_row = has_ext],
          ret |-> 0]

RECURSIVE opengl_es2_create_texture(_, _, _, _, _, _)
\* g: the pipeline so far; t: the texture made for plane i (from 1); the
\* next plane's texture, or the scale program, follows
opengl_es2_create_texture(g, program, t, i, fails, has_ext) ==
    IF i < 3
    THEN opengl_es2_create_texture(
             [g EXCEPT !.tex[i] = [id |-> t.id,
                                   loc |-> UniformLoc(t.W, program, i - 1)]],
             program, texture_create(t.W, "GL_NEAREST"), i + 1, fails, has_ext)
    ELSE opengl_es2_create_scale(
             [g EXCEPT !.tex[i] = [id |-> t.id,
                                   loc |-> UniformLoc(t.W, program, i - 1)]],
             shader_init(t.W, Shader0, "SHADER_TYPE_COPY", fails.scale),
             has_ext)

\* d: the result of shader_init for the deinterlace program
opengl_es2_create_deint(d, fails, has_ext) ==
    IF d.ret < 0
    THEN opengl_es2_create_cleanup(d.W, [Gl0 EXCEPT !.deint = d.sh])
    ELSE opengl_es2_create_texture([Gl0 EXCEPT !.deint = d.sh], d.sh.program,
                                   texture_create(d.W, "GL_NEAREST"), 1,
                                   fails, has_ext)

\* fails: [alloc, deint, scale] the failures met; has_ext: the driver
\* lists GL_EXT_unpack_subimage
opengl_es2_create(W, fails, has_ext) ==
    IF fails.alloc THEN [W |-> W, gl |-> Nil, ret |-> -1]
    ELSE opengl_es2_create_deint(
             shader_init(W, Shader0, "SHADER_TYPE_DEINT_LINEAR", fails.deint),
             fails, has_ext)

\* the textures and the framebuffer, after the two shader programs
opengl_es2_destroy_objects(W, gl) ==
    LET W1 == glDelete(W, "glDeleteTextures", "texture", gl.tex[1].id)
        W2 == glDelete(W1, "glDeleteTextures", "texture", gl.tex[2].id)
        W3 == glDelete(W2, "glDeleteTextures", "texture", gl.tex[3].id)
        W4 == glDelete(W3, "glDeleteTextures", "texture", gl.rgb_tex.id)
        W5 == glDelete(W4, "glDeleteFramebuffers", "framebuffer", gl.framebuffer)
    IN  Emit(W5, "free", 0, "gl")

opengl_es2_destroy(W, gl) ==
    IF IsNil(gl) THEN W
    ELSE opengl_es2_destroy_objects(
             shader_delete(shader_delete(W, gl.deint).W, gl.scale).W, gl)

(***************************************************************************)
(* Pictures.  A picture_t is [format, i_planes, p] with p the planes       *)
(* [i_pitch, i_pixel_pitch, i_visible_pitch, i_visible_lines, i_lines,     *)
(* p_pixels]; p_pixels is the plane's memory, a function from byte         *)
(* offsets to bytes.  The host lays the planes out from the video format:  *)
(* plane i of an I420 picture has 1/ChromaDen(i) of the width and height.  *)
(***************************************************************************)
Chromas == {"I420", "YV12", "NV12"}

PlaneCount(chroma) == IF chroma = "NV12" THEN 2 ELSE 3

\* vlc_chroma_description_t of I420: w and h are 1/1 for Y, 1/2 for U and V
ChromaDen(i) == IF i = 1 THEN 1 ELSE 2

RoundUp(n, a) == ((n + a - 1) \div a) * a

\* the content of a synthetic plane: every byte of the (small) plane differs
PixelAt(seed, i, k) == (seed + 64 * i + 7 * k) % 256

\* fmt: the video format of the display; pad: the extra pixels of a Y row
MakePicture(fmt, chroma, pad, seed) ==
    [format   |-> [i_chroma |-> chroma, i_width |-> fmt.i_width,
                   i_height |-> fmt.i_height],
     i_planes |-> PlaneCount(chroma),
     p |-> [i \in 1..PlaneCount(chroma) |->
              LET pitch == (fmt.i_width + pad) \div ChromaDen(i)
                  lines == fmt.i_height \div ChromaDen(i)
              IN  [i_pitch         |-> pitch,
                   i_pixel_pitch   |-> 1,
                   i_visible_pitch |-> fmt.i_visible_width \div ChromaDen(i),
                   i_visible_lines |-> fmt.i_visible_height \div ChromaDen(i),
                   i_lines         |-> lines,
                   p_pixels        |-> [k \in 0..(pitch * lines - 1) |->
                                          PixelAt(seed, i, k)]]]]

(***************************************************************************)
(* Texture Upload: glTexImage2D as GL ES 2 defines it, and the two paths.  *)
(* GL reads row r of the image at offset r * stride of the client memory,  *)
(* where stride is the row length (GL_UNPACK_ROW_LENGTH, or the image      *)
(* width when that is 0) rounded up to GL_UNPACK_ALIGNMENT.  The program   *)
(* never sets GL_UNPACK_ALIGNMENT, so it has GL's initial value.  A read   *)
(* outside the memory handed to GL yields whatever lies there (junk).      *)
(***************************************************************************)
UnpackAlignment == 4

MemRead(mem, k, junk) == IF k \in DOMAIN mem THEN mem[k] ELSE junk

\* the texture image GL builds: rows 0..height-1 of width bytes each
TexImage(W, width, height, mem, junk) ==
    LET stride == RoundUp(IF W.row > 0 THEN W.row ELSE width, UnpackAlignment)
    IN  [r \in 0..(height - 1) |->
           [c \in 0..(width - 1) |-> MemRead(mem, r * stride + c, junk)]]

\* glActiveTexture(GL_TEXTURE0 + unit); glBindTexture; glTexImage2D;
\* glUniform1i(loc, unit)
UploadPlane(W, unit, tex, width, height, mem, junk) ==
    LET W1 == Emit(W, "glActiveTexture", unit, "unit")
        W2 == Emit(W1, "glBindTexture", tex.id, "GL_TEXTURE_2D")
        W3 == Emit(W2, "glTexImage2D", tex.id,
                   [unit |-> unit, width |-> width, height |-> height,
                    row |-> W.row,
                    pixels |-> TexImage(W, width, height, mem, junk)])
    IN  Emit(W3, "glUniform1i", unit, tex.loc)

RECURSIVE update_textures_complex_from(_, _, _, _, _, _)
\* the loop of update_textures_complex from plane i on (i counts from 1)
update_textures_complex_from(W, gl, f, p, junk, i) ==
    IF i > p.i_planes THEN W
    ELSE LET rows == (f.i_visible_height * 1) \div ChromaDen(i)
             line == (f.i_visible_width * 1) \div ChromaDen(i)
             step == p.p[i].i_pitch \div p.p[i].i_pixel_pitch
             buf  == [k \in 0..(line * rows - 1) |->
                        p.p[i].p_pixels[(k \div line) * step + (k % line)]]
         IN  update_textures_complex_from(
                 UploadPlane(W, i - 1, gl.tex[i], line, rows, buf, junk),
                 gl, f, p, junk, i + 1)

update_textures_complex(W, gl, f, p, junk) ==
    update_textures_complex_from(W, gl, f, p, junk, 1)

glPixelStorei(W, len) ==
    Emit([W EXCEPT !.row = len], "glPixelStorei", len, "GL_UNPACK_ROW_LENGTH")

RECURSIVE update_textures_simple_from(_, _, _, _, _)
update_textures_simple_from(W, gl, p, junk, i) ==
    IF i > p.i_planes THEN W
    ELSE LET W1 == Emit(W, "glActiveTexture", i - 1, "unit")
             W2 == Emit(W1, "glBindTexture", gl.tex[i].id, "GL_TEXTURE_2D")
             W3 == glPixelStorei(W2, p.p[i].i_pitch \div p.p[i].i_pixel_pitch)
             W4 == Emit(W3, "glTexImage2D", gl.tex[i].id,
                        [unit |-> i - 1, width |-> p.p[i].i_visible_pitch,
                         height |-> p.p[i].i_visible_lines, row |-> W3.row,
                         pixels |-> TexImage(W3, p.p[i].i_visible_pitch,
                                             p.p[i].i_visible_lines,
                                             p.p[i].p_pixels, junk)])
             W5 == Emit(W4, "glUniform1i", i - 1, gl.tex[i].loc)
         IN  update_textures_simple_from(W5, gl, p, junk, i + 1)

\* update_textures_simple without the reset of the row length
update_textures_simple_no_reset(W, gl, p, junk) ==
    update_textures_simple_from(W, gl, p, junk, 1)

update_textures_simple(W, gl, p, junk) ==
    glPixelStorei(update_textures_simple_from(W, gl, p, junk, 1), 0)

update_textures(W, gl, f, p, junk) ==
    IF gl.has_unpack_row THEN update_textures_simple(W, gl, p, junk)
    ELSE update_textures_complex(W, gl, f, p, junk)

(***************************************************************************)
(* The two render passes.                                                  *)
(***************************************************************************)
do_deinterlace_and_color_conversion(W, gl, f, p, junk) ==
    LET W1 == glBindFramebuffer(W, gl.framebuffer)
        W2 == glUseProgram(W1, gl.deint.program)
        W3 == Emit(W2, "glViewport", 0,
                   [x |-> 0, y |-> 0, width |-> p.format.i_width,
                    height |-> p.format.i_height])
        W4 == update_textures(W3, gl, f, p, junk)
        W5 == Emit(W4, "glUniform1f", p.format.i_height, "line_height")
    IN  glDrawElements(W5)

do_scaling(W, gl) ==
    LET W1 == glUseProgram(W, gl.scale.program)
        W2 == glBindFramebuffer(W1, 0)
        W3 == Emit(W2, "glViewport", 0, gl.viewport)
        W4 == Emit(W3, "glClear", 0, "GL_COLOR_BUFFER_BIT")
        W5 == Emit(W4, "glActiveTexture", 3, "unit")
        W6 == Emit(W5, "glBindTexture", gl.rgb_tex.id, "GL_TEXTURE_2D")
        W7 == Emit(W6, "glUniform1i", 3, gl.rgb_tex.loc)
    IN  glDrawElements(W7)

(***************************************************************************)
(* Window events.  The X server queues events for the program's window;    *)
(* x11_backend_handle_events drains the queue.                             *)
(***************************************************************************)
ConfigureNotify(size) ==
    [type |-> "ConfigureNotify", width |-> size.width, height |-> size.height]

Expose == [type |-> "Expose", width |-> 0, height |-> 0]

\* the sizes the host and the X server use in the runs
CfgSizes == {Size(4, 3), Size(9, 7)}

WinSizes == {Size(9, 8), Size(4, 4)}

\* compute_bounding_box on those sizes, evaluated once
BoxTable ==
    [c \in CfgSizes, d \in CfgSizes \cup WinSizes |-> compute_bounding_box(c, d)]

\* compute_bounding_box(cfg, &rect, &viewport) as the operations call it
BoundingBox(cfg, rect) == BoxTable[cfg, rect]

RECURSIVE x11_backend_handle_events_rect_only(_, _, _, _)
\* x11_backend_handle_events that stores the new size and leaves the viewport
x11_backend_handle_events_rect_only(rect, viewport, cfg, q) ==
    IF q = <<>> THEN [rect |-> rect, viewport |-> viewport]
    ELSE IF Head(q).type = "ConfigureNotify"
    THEN x11_backend_handle_events_rect_only(
             Size(Head(q).width, Head(q).height), viewport, cfg, Tail(q))
    ELSE x11_backend_handle_events_rect_only(rect, viewport, cfg, Tail(q))

RECURSIVE x11_backend_handle_events(_, _, _, _)
\* the XPending/XNextEvent loop over the queue q: the window rectangle and
\* the viewport after it
x11_backend_handle_events(rect, viewport, cfg, q) ==
    IF q = <<>> THEN [rect |-> rect, viewport |-> viewport]
    ELSE IF Head(q).type = "ConfigureNotify"
    THEN LET r == Size(Head(q).width, Head(q).height)
         IN  x11_backend_handle_events(r, BoundingBox(cfg, r), cfg, Tail(q))
    ELSE x11_backend_handle_events(rect, viewport, cfg, Tail(q))

(***************************************************************************)
(* State.                                                                  *)
(*   phase   "unloaded", "ready" (Open succeeded), "failed" (Open          *)
(*           failed), "closed"                                             *)
(*   sys     vout_display_sys_t: [x11, egl, gl, pool]                      *)
(*   vd      the host's vout_display_t: [cfg, fmt]; cfg is                 *)
(*           vd->cfg->display, fmt is vd->fmt                              *)
(*   events  the X events queued for the window and not yet read           *)
(*   window  the size of the window (what the X server last announced)     *)
(*   gpu     the driver side, see World0                                   *)
(*   last    the last operation with its inputs and result                 *)
(*   frames  the numbers of pictures accepted and dropped by do_display    *)
(*           and of buffer swaps                                           *)
(*   box     a single application of compute_bounding_box                  *)
(***************************************************************************)
VARIABLES phase, sys, vd, events, window, gpu, last, frames, box

vars == <<phase, sys, vd, events, window, gpu, last, frames, box>>

\* ---- bounds ----
\* X events that may wait in the queue
MaxPending == 2

\* pictures handed to do_display in one run
MaxFrames == 2

\* do_pool may create objects while the next GL name is at most this
MaxGLNames == 12

\* sizes given to compute_bounding_box on its own
MaxDim == 9

Sys0 == [x11 |-> Nil, egl |-> Nil, gl |-> Nil, pool |-> NULL]

Fmt(w, h) ==
    [i_chroma |-> "I420", i_width |-> w, i_height |-> h,
     i_visible_width |-> w, i_visible_height |-> h]

NoCfg == Size(0, 0)

BoxIdle == [pc |-> "idle"]

Init ==
    /\ phase = "unloaded"
    /\ sys = Sys0
    /\ vd = [cfg |-> NoCfg, fmt |-> Fmt(0, 0)]
    /\ events = <<>>
    /\ window = NoCfg
    /\ gpu = World0
    /\ last = [op |-> "none"]
    /\ frames = [accepted |-> 0, dropped |-> 0, swaps |-> 0]
    /\ box = BoxIdle

\* every operation starts a fresh call log
Begin == [gpu EXCEPT !.log = <<>>]

(***************************************************************************)
(* Open.  sc lists what fails: [sys, x11, egl, us, uc, alloc, deint,       *)
(* scale]; the host supplies the display configuration cfg and the video   *)
(* format fmt.                                                             *)
(***************************************************************************)
\* the "cleanup:" label of Open
OpenCleanup(W, s) ==
    Emit(x11_backend_destroy(
             egl_backend_destroy(opengl_es2_destroy(W, s.gl), s.egl), s.x11),
         "free", 0, "sys")

\* goto cleanup
OpenFail(W, s) == [W |-> OpenCleanup(W, s), sys |-> Sys0, ret |-> -1]

\* g: the result of opengl_es2_create; s2: sys with its window and context
OpenPipeline(g, s2, cfg) ==
    IF g.ret # 0 THEN OpenFail(g.W, s2)
    ELSE [W |-> g.W,
          sys |-> [s2 EXCEPT !.gl =
                     [g.gl EXCEPT !.viewport = BoundingBox(cfg, s2.x11.rect)]],
          ret |-> 0]

\* e: the result of egl_backend_create; s1: sys with its window
OpenContext(e, s1, sc, has_ext, cfg) ==
    IF e.ret # 0 THEN OpenFail(e.W, s1)
    ELSE OpenPipeline(
             opengl_es2_create(e.W, [alloc |-> sc.alloc, deint |-> sc.deint,
                                     scale |-> sc.scale], has_ext),
             [s1 EXCEPT !.egl = e.egl], cfg)

\* x: the result of x11_backend_create
OpenWindow(x, sc, has_ext, cfg) ==
    IF x.ret # 0 THEN OpenFail(x.W, Sys0)
    ELSE OpenContext(egl_backend_create(x.W, sc.egl, sc.us, sc.uc),
                     [Sys0 EXCEPT !.x11 = x.x11], sc, has_ext, cfg)

OpenResult(sc, has_ext, cfg, external, geom) ==
    IF sc.sys THEN [W |-> Begin, sys |-> Sys0, ret |-> -1]
    ELSE OpenWindow(x11_backend_create(Begin, sc.x11, cfg, external, geom),
                    sc, has_ext, cfg)

\* r: what Open did and returns
OpenReturn(r, sc, cfg, fmt) ==
    /\ phase' = IF r.ret = 0 THEN "ready" ELSE "failed"
    /\ sys' = r.sys
    /\ gpu' = r.W
    /\ vd' = [cfg |-> cfg, fmt |-> [fmt EXCEPT !.i_chroma = "I420"]]
    /\ window' = IF r.ret = 0 THEN r.sys.x11.rect ELSE window
    /\ last' = [op |-> "Open", sc |-> sc, ret |-> r.ret]

Open(sc, has_ext, cfg, fmt, external, geom) ==
    /\ phase = "unloaded"
    /\ OpenReturn(OpenResult(sc, has_ext, cfg, external, geom), sc, cfg, fmt)
    /\ UNCHANGED <<events, frames, box>>

(***************************************************************************)
(* Close                                                                   *)
(***************************************************************************)
\* the calls of Close
CloseCalls(W, s) ==
    LET W3 == x11_backend_destroy(
                  egl_backend_destroy(opengl_es2_destroy(W, s.gl), s.egl),
                  s.x11)
    IN  Emit(IF s.pool # NULL
             THEN Emit(W3, "picture_pool_Delete", s.pool, "pool") ELSE W3,
             "free", 0, "sys")

Close ==
    /\ phase = "ready"
    /\ gpu' = CloseCalls(Begin, sys)
    /\ phase' = "closed"
    /\ sys' = Sys0
    /\ events' = <<>>
    /\ last' = [op |-> "Close"]
    /\ UNCHANGED <<vd, window, frames, box>>

(***************************************************************************)
(* do_pool.  pool_ok: picture_pool_NewFromFormat returns a pool.           *)
(***************************************************************************)
do_pool_create(W, gl, fmt) ==
    LET fb == glCreate(W, "glGenFramebuffers", "framebuffer")
        t  == texture_create(fb.W, "GL_LINEAR")
        W1 == Emit(t.W, "glTexImage2D", t.id,
                   [unit |-> -1, width |-> fmt.i_width, height |-> fmt.i_height,
                    row |-> t.W.row, pixels |-> <<>>])
        W2 == glBindFramebuffer(W1, fb.id)
        W3 == Emit(W2, "glFramebufferTexture2D", t.id, fb.id)
    IN  [W |-> W3,
         gl |-> [gl EXCEPT !.framebuffer = fb.id, !.rgb_tex.id = t.id]]

do_pool(pool_ok) ==
    /\ phase = "ready"
    /\ sys.pool # NULL \/ gpu.next <= MaxGLNames
    /\ IF sys.pool = NULL
       THEN LET r == do_pool_create(
                        Emit(Begin, "picture_pool_NewFromFormat",
                             IF pool_ok THEN 1 ELSE NULL, "pool"),
                        sys.gl, vd.fmt)
            IN  /\ sys' = [sys EXCEPT !.pool = IF pool_ok THEN 1 ELSE NULL,
                                      !.gl = r.gl]
                /\ gpu' = r.W
       ELSE /\ gpu' = Begin
            /\ UNCHANGED sys
    /\ last' = [op |-> "do_pool", ret |-> sys'.pool]
    /\ UNCHANGED <<phase, vd, events, window, frames, box>>

(***************************************************************************)
(* do_display.  p: the picture; sp: a subpicture comes with it; junk: the  *)
(* byte found by reads outside the memory handed to GL.                    *)
(***************************************************************************)
\* the calls of a log that have one of the names in ops, in order
Calls(log, ops) == SelectSeq(log, LAMBDA c : c.op \in ops)

Count(log, op) == Len(Calls(log, {op}))

Swaps(log) == Count(log, "eglSwapBuffers")

\* the format test without the chroma comparison
Unsupported_planes_only(p) == p.i_planes # 3

\* the format test at the top of do_display
Unsupported(p) == p.format.i_chroma # "I420" \/ p.i_planes # 3

\* do_display presenting before the scale pass has drawn
do_display_render_swap_early(W, s, cfg, f, q, p, sp, junk) ==
    LET h  == x11_backend_handle_events(s.x11.rect, s.gl.viewport, cfg, q)
        gl == [s.gl EXCEPT !.viewport = h.viewport]
        W1 == Emit(W, "x11_backend_handle_events", Len(q), "x11")
        W2 == do_deinterlace_and_color_conversion(W1, gl, f, p, junk)
        W3 == Emit(W2, "eglSwapBuffers", s.egl.surface, "egl")
        W4 == do_scaling(W3, gl)
        W5 == Emit(W4, "picture_Release", 0, "picture")
        W6 == IF sp THEN Emit(W5, "subpicture_Delete", 0, "subpicture") ELSE W5
    IN  [W |-> W6, sys |-> [s EXCEPT !.gl = gl, !.x11.rect = h.rect]]

\* eglSwapBuffers, picture_Release and subpicture_Delete
do_display_present(W, s, sp) ==
    LET W4 == Emit(W, "eglSwapBuffers", s.egl.surface, "egl")
        W5 == Emit(W4, "picture_Release", 0, "picture")
        W6 == IF sp THEN Emit(W5, "subpicture_Delete", 0, "subpicture") ELSE W5
    IN  [W |-> W6, sys |-> s]

\* s: sys after the events were read; the two passes, then the swap
do_display_passes(W, s, f, p, sp, junk) ==
    do_display_present(
        do_scaling(do_deinterlace_and_color_conversion(W, s.gl, f, p, junk),
                   s.gl),
        s, sp)

\* h: the window rectangle and the viewport x11_backend_handle_events left
do_display_events(W, s, h, f, p, sp, junk) ==
    do_display_passes(W, [s EXCEPT !.gl.viewport = h.viewport,
                                   !.x11.rect = h.rect],
                      f, p, sp, junk)

\* the calls of do_display after the format test, and the pipeline after them
do_display_render(W, s, cfg, f, q, p, sp, junk) ==
    do_display_events(Emit(W, "x11_backend_handle_events", Len(q), "x11"), s,
                      x11_backend_handle_events(s.x11.rect, s.gl.viewport,
                                                cfg, q),
                      f, p, sp, junk)

\* the picture the host hands over: laid out for the display's format, in
\* rows of at least 16 more bytes than the width, a multiple of 16
HostPicture(fmt, chroma) ==
    MakePicture(fmt, chroma, RoundUp(fmt.i_width, 16) + 16 - fmt.i_width, 0)

\* r: the calls of an accepted frame and the pipeline after them
do_display_accept(r) ==
    /\ gpu' = r.W
    /\ sys' = r.sys
    /\ events' = <<>>
    /\ frames' = [frames EXCEPT !.accepted = @ + 1,
                                !.swaps = @ + Swaps(r.W.log)]

do_display(chroma, sp, junk) ==
    /\ phase = "ready"
    /\ frames.accepted + frames.dropped < MaxFrames
    /\ LET p == HostPicture(vd.fmt, chroma)
       IN  IF Unsupported(p)
           THEN /\ gpu' = Begin
                /\ frames' = [frames EXCEPT !.dropped = @ + 1,
                                            !.swaps = @ + Swaps(Begin.log)]
                /\ UNCHANGED <<sys, events>>
           ELSE do_display_accept(
                    do_display_render(Begin, sys, vd.cfg, vd.fmt, events,
                                      p, sp, junk))
    /\ last' = [op |-> "do_display", chroma |-> chroma, sp |-> sp]
    /\ UNCHANGED <<phase, vd, window, box>>

(***************************************************************************)
(* do_control.  The host passes the configuration it asks the display to   *)
(* take; when do_control returns VLC_SUCCESS the host makes it the         *)
(* display's configuration (vd->cfg), which is what                        *)
(* x11_backend_handle_events reads afterwards.                             *)
(***************************************************************************)
Queries ==
    {"VOUT_DISPLAY_HIDE_MOUSE", "VOUT_DISPLAY_CHANGE_FULLSCREEN",
     "VOUT_DISPLAY_CHANGE_WINDOW_STATE", "VOUT_DISPLAY_CHANGE_DISPLAY_SIZE",
     "VOUT_DISPLAY_CHANGE_SOURCE_ASPECT", "VOUT_DISPLAY_RESET_PICTURES"}

SizeQueries ==
    {"VOUT_DISPLAY_CHANGE_DISPLAY_SIZE", "VOUT_DISPLAY_CHANGE_SOURCE_ASPECT"}

\* the viewport after the request, and the value returned
do_control_result(gl, rect, query, cfg) ==
    IF query \in SizeQueries
    THEN [viewport |-> BoundingBox(cfg, rect), ret |-> 0]
    ELSE IF query = "VOUT_DISPLAY_RESET_PICTURES"
    THEN [viewport |-> gl.viewport, ret |-> -1]
    ELSE [viewport |-> gl.viewport, ret |-> 0]

do_control(query, cfg) ==
    /\ phase = "ready"
    /\ LET r == do_control_result(sys.gl, sys.x11.rect, query, cfg)
       IN  /\ sys' = [sys EXCEPT !.gl.viewport = r.viewport]
           /\ vd' = IF query \in SizeQueries THEN [vd EXCEPT !.cfg = cfg] ELSE vd
           /\ last' = [op |-> "do_control", query |-> query, ret |-> r.ret]
    /\ gpu' = Begin
    /\ UNCHANGED <<phase, events, window, frames, box>>

(***************************************************************************)
(* The X server: the window is resized, or exposed.                        *)
(***************************************************************************)
XResize(size) ==
    /\ phase = "ready"
    /\ Len(events) < MaxPending
    /\ events' = Append(events, ConfigureNotify(size))
    /\ window' = size
    /\ last' = [op |-> "XResize"]
    /\ gpu' = Begin
    /\ UNCHANGED <<phase, sys, vd, frames, box>>

XExpose ==
    /\ phase = "ready"
    /\ Len(events) < MaxPending
    /\ events' = Append(events, Expose)
    /\ last' = [op |-> "XExpose"]
    /\ gpu' = Begin
    /\ UNCHANGED <<phase, sys, vd, window, frames, box>>

(***************************************************************************)
(* Inputs.                                                                 *)
(***************************************************************************)
Scenario(sysf, x11f, eglf, us, uc, allocf, deint, scale) ==
    [sys |-> sysf, x11 |-> x11f, egl |-> eglf, us |-> us, uc |-> uc,
     alloc |-> allocf, deint |-> deint, scale |-> scale]

NoFailure == Scenario(FALSE, FALSE, "none", NULL, NULL, FALSE, "none", "none")

\* one failure per Open, except that a failed link does not stop shader_init
Scenarios ==
    {NoFailure, [NoFailure EXCEPT !.sys = TRUE], [NoFailure EXCEPT !.x11 = TRUE],
     [NoFailure EXCEPT !.alloc = TRUE]}
    \cup {[NoFailure EXCEPT !.egl = f, !.us = us, !.uc = uc] :
            f \in EglFails \ {"none"}, us \in {NULL, Uninit}, uc \in {NULL, Uninit}}
    \cup {[NoFailure EXCEPT !.deint = f] : f \in ShaderFails}
    \cup {[NoFailure EXCEPT !.deint = d, !.scale = f] :
            d \in {"none", "link"}, f \in ShaderFails}

Formats == {Fmt(6, 4), Fmt(8, 4)}

Junk == {0, 255}

\* The life cycle: Open with every failure, then the host's calls, Close
Next ==
    \/ \E sc \in Scenarios, has_ext \in BOOLEAN, external \in BOOLEAN :
          Open(sc, has_ext, Size(4, 3), Fmt(6, 4), external, Size(9, 8))
    \/ \E pool_ok \in BOOLEAN : do_pool(pool_ok)
    \/ \E c \in Chromas, sp \in BOOLEAN, junk \in Junk : do_display(c, sp, junk)
    \/ \E query \in Queries, cfg \in CfgSizes : do_control(query, cfg)
    \/ Close

Spec == Init /\ [][Next]_vars

\* Steady state: Open succeeds; pictures, control requests and window
\* events in any order
NextFrames ==
    \/ \E has_ext \in BOOLEAN, fmt \in Formats :
          Open(NoFailure, has_ext, Size(4, 3), fmt, FALSE, Size(9, 8))
    \/ do_pool(TRUE)
    \/ \E c \in Chromas, sp \in BOOLEAN, junk \in Junk : do_display(c, sp, junk)
    \/ \E query \in Queries, cfg \in CfgSizes : do_control(query, cfg)
    \/ \E size \in WinSizes : XResize(size)
    \/ XExpose

SpecFrames == Init /\ [][NextFrames]_vars

(***************************************************************************)
(* compute_bounding_box on its own: every source and destination size up   *)
(* to MaxDim, and the sizes of the documented examples.                    *)
(***************************************************************************)
Dims == {Size(w, h) : w \in 1..MaxDim, h \in 1..MaxDim}

BoxInputs ==
    {[cfg |-> c, dst |-> d] : c \in Dims, d \in Dims}
    \cup {[cfg |-> Size(1920, 1080), dst |-> Size(800, 800)],
          [cfg |-> Size(4, 3), dst |-> Size(100, 100)],
          [cfg |-> Size(720, 576), dst |-> Size(1366, 768)]}

InitBox ==
    /\ phase = "unloaded"
    /\ sys = Sys0
    /\ vd = [cfg |-> NoCfg, fmt |-> Fmt(0, 0)]
    /\ events = <<>>
    /\ window = NoCfg
    /\ gpu = World0
    /\ last = [op |-> "none"]
    /\ frames = [accepted |-> 0, dropped |-> 0, swaps |-> 0]
    /\ \E in \in BoxInputs : box = [pc |-> "call", cfg |-> in.cfg, dst |-> in.dst]

BoxCompute ==
    /\ box.pc = "call"
    /\ box' = [pc |-> "done", cfg |-> box.cfg, dst |-> box.dst,
               res |-> compute_bounding_box(box.cfg, box.dst)]
    /\ UNCHANGED <<phase, sys, vd, events, window, gpu, last, frames>>

SpecBox == InitBox /\ [][BoxCompute]_vars

(***************************************************************************)
(* Properties.                                                             *)
(***************************************************************************)
\* the picture of the last do_display
LastPicture == HostPicture(vd.fmt, last.chroma)

\* the formats do_display is specified to drop
NotI420ThreePlanes(p) == p.format.i_chroma # "I420" \/ p.i_planes # 3

Displayed == last.op = "do_display"

Accepted == Displayed /\ ~NotI420ThreePlanes(LastPicture)

Dropped == Displayed /\ NotI420ThreePlanes(LastPicture)

OpsOf(log) == [i \in 1..Len(log) |-> log[i].op]

Abs(n) == IF n < 0 THEN 0 - n ELSE n

\* C1: after every do_display call the picture has been released exactly
\* once, and the subpicture, when one was passed, deleted exactly once,
\* whatever the picture's chroma and plane count.
C1_PictureReleasedOnce ==
    Displayed =>
        /\ Count(gpu.log, "picture_Release") = 1
        /\ Count(gpu.log, "subpicture_Delete") = (IF last.sp THEN 1 ELSE 0)

\* C2: a do_display call with a picture that is not I420 or has not 3 planes
\* issues no draw call, no texture upload and no buffer swap and leaves the
\* pipeline ready; a call with a supported picture draws both passes and
\* swaps once, also after pictures were dropped.
C2_UnsupportedDropped ==
    /\ Dropped =>
          /\ Count(gpu.log, "glDrawElements") = 0
          /\ Count(gpu.log, "glTexImage2D") = 0
          /\ Count(gpu.log, "eglSwapBuffers") = 0
          /\ phase = "ready"
    /\ Accepted =>
          /\ Count(gpu.log, "glDrawElements") = 2
          /\ Count(gpu.log, "glTexImage2D") = 3
          /\ Count(gpu.log, "eglSwapBuffers") = 1

\* a supported picture is rendered and presented after one was dropped
C2_Witness ==
    /\ Accepted
    /\ frames.dropped >= 1
    /\ Count(gpu.log, "glDrawElements") = 2
    /\ Count(gpu.log, "eglSwapBuffers") = 1

\* C3: when Open reports failure, every GL object created so far has been
\* deleted: no object is created and not deleted.
C3_NoLeakOnFailure == phase = "failed" => gpu.live = {}

LinkedProgram(sh) ==
    /\ sh.program # 0 /\ Live(gpu, sh.program, "program")
    /\ sh.program \in gpu.linked
    /\ Live(gpu, sh.vertex, "shader") /\ Live(gpu, sh.fragment, "shader")

\* C4: a program is fully linked or not created at all: when a compile or
\* link step of shader_init failed, Open reports failure and no shader or
\* program object is left; in the Ready state both gl->deint.program and
\* gl->scale.program are live, linked programs.
C4_ProgramAllOrNothing ==
    /\ phase = "ready" => LinkedProgram(sys.gl.deint) /\ LinkedProgram(sys.gl.scale)
    /\ (last.op = "Open" /\ (last.sc.deint # "none" \/ last.sc.scale # "none")) =>
          /\ last.ret # 0
          /\ \A o \in gpu.live : o.kind \notin {"shader", "program"}

FrameSteps ==
    Calls(gpu.log, {"x11_backend_handle_events", "glDrawElements",
                    "eglSwapBuffers", "picture_Release"})

C6_BoxFitsCentred ==
    box.pc = "done" =>
        /\ box.res.width <= box.dst.width
        /\ box.res.height <= box.dst.height
        /\ box.res.x <= box.dst.width
        /\ box.res.y <= box.dst.height
        /\ Abs(box.res.x + box.res.width \div 2 - box.dst.width \div 2) <= 1
        /\ Abs(box.res.y + box.res.height \div 2 - box.dst.height \div 2) <= 1

\* a rectangle limited by the height and centred horizontally
C6_Witness ==
    /\ box.pc = "done"
    /\ box.res.x > 0
    /\ box.res.width < box.dst.width
    /\ box.res.height = box.dst.height

\* the three-branch reference in exact arithmetic
Reference(src, dst) ==
    IF src.width * dst.height > dst.width * src.height
    THEN LET h == (dst.width * src.height) \div src.width
         IN  Rect(0, (dst.height - h) \div 2, dst.width, h)
    ELSE IF src.width * dst.height < dst.width * src.height
    THEN LET w == (dst.height * src.width) \div src.height
         IN  Rect((dst.width - w) \div 2, 0, w, dst.height)
    ELSE Rect(0, 0, dst.width, dst.height)

Uploaded(log) ==
    [i \in 1..Len(Calls(log, {"glTexImage2D"})) |->
       LET c == Calls(log, {"glTexImage2D"})[i]
       IN  [tex |-> c.id, unit |-> c.arg.unit, width |-> c.arg.width,
            height |-> c.arg.height, pixels |-> c.arg.pixels]]

Samplers(log) ==
    [i \in 1..Len(Calls(log, {"glUniform1i"})) |->
       LET c == Calls(log, {"glUniform1i"})[i]
       IN  [loc |-> c.arg, unit |-> c.id]]

\* C8: for an I420 picture whose pitch exceeds its visible width the two
\* upload paths upload the same textures (same size, same bytes) and set
\* the same samplers, plane i on texture unit i.
C8_UploadPathsAgree ==
    Accepted =>
        \A junk \in Junk :
           LET simple  == update_textures_simple(Begin, sys.gl, LastPicture, junk).log
               complex == update_textures_complex(Begin, sys.gl, vd.fmt,
                                                  LastPicture, junk).log
           IN  /\ Uploaded(simple) = Uploaded(complex)
               /\ Samplers(simple) = Samplers(complex)

EglTeardown ==
    Calls(gpu.log, {"eglDestroyContext", "eglDestroySurface", "eglTerminate"})

TeardownRank(op) ==
    CASE op = "eglDestroySurface" -> 1
      [] op = "eglDestroyContext" -> 2
      [] OTHER -> 3

\* C9 as stated: egl_backend_destroy destroys the surface first, then the
\* context, then the display, and skips any that is null.
C9_SurfaceContextDisplay ==
    /\ \A i, j \in 1..Len(EglTeardown) :
          i < j => TeardownRank(EglTeardown[i].op) < TeardownRank(EglTeardown[j].op)
    /\ \A i \in 1..Len(EglTeardown) : EglTeardown[i].id # NULL

AmendedRank(op) ==
    CASE op = "eglDestroyContext" -> 1
      [] op = "eglDestroySurface" -> 2
      [] OTHER -> 3

\* C9 amended: egl_backend_destroy destroys the context first, then the
\* surface, then the display, and skips any of the three that is null; on
\* Close all three are destroyed.
C9_ContextSurfaceDisplay ==
    /\ \A i, j \in 1..Len(EglTeardown) :
          i < j => AmendedRank(EglTeardown[i].op) < AmendedRank(EglTeardown[j].op)
    /\ \A i \in 1..Len(EglTeardown) : EglTeardown[i].id # NULL
    /\ last.op = "Close" =>
          [i \in 1..Len(EglTeardown) |-> EglTeardown[i].id] =
             <<EglContextHandle, EglSurfaceHandle, EglDisplayHandle>>
    /\ (last.op = "Open" /\ last.sc.egl = "eglGetDisplay") =>
          Count(gpu.log, "eglTerminate") = 0

\* Close has destroyed context, surface and display
C9_Witness ==
    /\ last.op = "Close"
    /\ OpsOf(EglTeardown) = <<"eglDestroyContext", "eglDestroySurface", "eglTerminate">>

Viewports == Calls(gpu.log, {"glViewport"})

LiveOf(kind) == {o \in gpu.live : o.kind = kind}

\* C11: over any sequence of do_pool calls between Open and Close, also
\* when the pool allocation returns NULL, at most one offscreen framebuffer
\* and at most one RGB texture (beside the three planar textures) are ever
\* created: a do_pool call after the first creates no GPU object.
C11_OneFramebuffer ==
    phase = "ready" =>
        /\ Cardinality(LiveOf("framebuffer")) <= 1
        /\ Cardinality(LiveOf("texture")) <= 4

\* the texture uploads of the last operation
Uploads == Calls(gpu.log, {"glTexImage2D"})

\* the last operation uploaded through update_textures_simple
SimplePath == Accepted /\ sys.gl.has_unpack_row

\* C12: whenever update_textures has returned, on either path, the GL
\* unpack row length is 0; so it is 0 between any two operations, and every
\* upload outside update_textures_simple (the compacting path, do_pool)
\* happens with row length 0.
C12_RowLengthReset ==
    /\ gpu.row = 0
    /\ \A i \in 1..Len(Uploads) : SimplePath \/ Uploads[i].arg.row = 0
    /\ SimplePath =>
          LET sets == Calls(gpu.log, {"glPixelStorei"})
          IN  Len(sets) = 4 /\ sets[4].id = 0

\* a frame uploaded with the picture's pitch as row length, and reset after
C12_Witness ==
    /\ SimplePath
    /\ \E i \in 1..Len(Uploads) : Uploads[i].arg.row > 0
    /\ gpu.row = 0

\* the calls that delete a GL object
GLDeletes ==
    {"glDeleteShader", "glDeleteProgram", "glDeleteTextures",
     "glDeleteFramebuffers"}

\* the GL object names a call refers to (0 names no object)
NamesOf(c) ==
    (CASE c.op \in GLDeletes \cup {"glUseProgram", "glLinkProgram",
                                   "glCompileShader", "glBindTexture",
                                   "glTexImage2D", "glBindFramebuffer"} -> {c.id}
       [] c.op \in {"glAttachShader", "glFramebufferTexture2D"} -> {c.id, c.arg}
       [] OTHER -> {}) \ {0}

\* the names the pipeline holds for later calls
HeldNames(gl) ==
    {gl.framebuffer, gl.rgb_tex.id, gl.tex[1].id, gl.tex[2].id, gl.tex[3].id,
     gl.deint.program, gl.deint.vertex, gl.deint.fragment,
     gl.scale.program, gl.scale.vertex, gl.scale.fragment} \ {0}

\* C13: in every life cycle, with every failure path of Open and
\* shader_init, a GPU object name is deleted at most once and only after
\* it was created, no GL call names an object after its deletion (within
\* an operation, and the pipeline holds no deleted name for the next one),
\* and no GL deletion follows the destruction of the EGL context.
C13_NoUseAfterDelete ==
    /\ \A i, j \in 1..Len(gpu.log) :
          (i < j /\ gpu.log[i].op \in GLDeletes) =>
             NamesOf(gpu.log[i]) \cap NamesOf(gpu.log[j]) = {}
    /\ \A i \in 1..Len(gpu.log) :
          gpu.log[i].op \in GLDeletes =>
             \A n \in NamesOf(gpu.log[i]) : n < gpu.next /\ n \in gpu.dead
    /\ phase = "ready" => HeldNames(sys.gl) \cap gpu.dead = {}
    /\ \A i, j \in 1..Len(gpu.log) :
          (i < j /\ gpu.log[i].op = "eglDestroyContext") =>
             ~(gpu.log[j].op \in GLDeletes /\ NamesOf(gpu.log[j]) # {})


\* the texture binds of the last operation; the scale pass makes the last one
Binds == Calls(gpu.log, {"glBindTexture"})

\* C14: whenever do_display draws, in any order of do_pool and do_display
\* after a successful Open, the deinterlace pass draws into a live
\* framebuffer made by do_pool (never framebuffer 0), and the texture the
\* scale pass samples has been created.
C14_OffscreenTarget ==
    Accepted =>
        /\ FrameSteps[2].arg.fb # 0
        /\ Obj(FrameSteps[2].arg.fb, "framebuffer") \in gpu.live
        /\ Binds[Len(Binds)].id # 0
        /\ Obj(Binds[Len(Binds)].id, "texture") \in gpu.live


\* the last operation was an Open in which egl_backend_create failed
EglFailed == last.op = "Open" /\ last.sc.egl # "none"

\* the positions of the calls of op on handle h in the last operation
CallsOn(op, h) ==
    {i \in 1..Len(gpu.log) : gpu.log[i].op = op /\ gpu.log[i].id = h}

\* the handles the calls of op were made on
HandlesOf(op) == {gpu.log[i].id : i \in {j \in 1..Len(gpu.log) : gpu.log[j].op = op}}

\* the backends freed in the last operation
EglFrees ==
    {i \in 1..Len(gpu.log) : gpu.log[i].op = "free" /\ gpu.log[i].arg = "egl"}

\* C15: when egl_backend_create fails at any step, its cleanup destroys the
\* surface and the context exactly when they were created before the
\* failing step, makes no destroy call on a handle that was never assigned,
\* and the backend is freed once, by egl_backend_create alone (not at all
\* when malloc failed).
C15_CleanupExact ==
    EglFailed =>
        /\ HandlesOf("eglDestroySurface") =
              {h \in {EglSurfaceHandle} : CallsOn("eglCreateWindowSurface", h) # {}}
        /\ HandlesOf("eglDestroyContext") =
              {h \in {EglContextHandle} : CallsOn("eglCreateContext", h) # {}}
        /\ Cardinality(CallsOn("eglDestroySurface", EglSurfaceHandle)) <= 1
        /\ Cardinality(CallsOn("eglDestroyContext", EglContextHandle)) <= 1
        /\ Cardinality(EglFrees) = (IF last.sc.egl = "malloc" THEN 0 ELSE 1)
        /\ IsNil(sys.egl)
        /\ gpu.egl = {}

====
